---- MODULE Spec2Model ----
(***************************************************************************)
(* Model of src/index.js: the /screenshot and /scrape request handlers,    *)
(* the validateUrl middleware, launchBrowser and the scrape cleanup        *)
(* routine, together with the browser (puppeteer) and the upload endpoint  *)
(* as their environment.                                                   *)
(*                                                                         *)
(* A request is a small process.  Its position pc is the operation it is   *)
(* awaiting; one action settles that operation (resolve or reject) and     *)
(* runs the synchronous code that follows, up to the next await.  Event    *)
(* handlers (page "error", browser "targetcrashed" / "disconnected",       *)
(* page "request") run when the environment emits the event.               *)
(***************************************************************************)
EXTENDS Integers, Sequences, FiniteSets, TLC

VARIABLES
  endpoint,      \* route of the request: "screenshot" | "scrape"
  requested,     \* the url query parameter as the client sent it
  query,         \* req.query.url (validateUrl rewrites it)
  nextCalled,    \* validateUrl called next(): the endpoint handler ran
  url,           \* const { url } = req.query inside the handler
  pc,            \* the operation the request is awaiting
  browser,       \* let browser: "undefined" | "connected" | "disconnected" | "closed"
  page,          \* the page handle: "undefined" | "open" | "closed"
  crashed,       \* the render target of the page has crashed
  listeners,     \* event listeners registered with page.on / browser.on
  interception,  \* page.setRequestInterception(true) has taken effect
  retryCount,    \* launchBrowser: let retryCount
  launches,      \* number of puppeteer.launch calls made
  launchErrors,  \* errors of the failed launch attempts, in order
  delays,        \* arguments of the delay() calls made by launchBrowser
  navigations,   \* the page.goto calls made: target url and waitUntil
  steps,         \* outcome of each awaited operation: "none" | "ok" | "fail"
  error,         \* the error caught by the handler's catch block (<<>> if none)
  result,        \* screenshot bytes / scrapedData / uploadResponse obtained
  invoked,       \* close calls made so far: subset of {"page.close","browser.close"}
  cleanupPc,     \* position of each cleanup() invocation, by caller
  uncaught,      \* errors thrown out of async event handlers (unhandled rejections)
  requests,      \* requests issued by the page and how each was resolved
  response,      \* responses sent on res, in order
  sid,           \* the browser process the handler's `browser` refers to (0: none)
  sessions,      \* number of browser processes puppeteer.launch has started
  usedBy,        \* per browser process: the requests whose code has held it
  runtime,       \* what the runtime does with an unhandled rejection
  process        \* the node process: "running" | "exited"

vars == <<endpoint, requested, query, nextCalled, url, pc, browser, page, crashed, listeners,
          interception, retryCount, launches, launchErrors, delays, navigations, steps, error,
          result, invoked, cleanupPc, uncaught, requests, response, sid,
          sessions, usedBy, runtime, process>>

----------------------------------------------------------------------------
(* Requests, inputs and bounds *)

Reqs == {"r1", "r2"}

Endpoints == {"screenshot", "scrape"}

\* Number of requests the page issues during one HTTP request.
MaxPageRequests == 1

maxRetries == 3

backoffBase == 2000

\* Values of the url query parameter.  A repeated parameter (?url=a&url=b)
\* is parsed to an array by the query parser.
Undefined == [t |-> "undefined", s |-> ""]
Str(x) == [t |-> "string", s |-> x]
Arr == [t |-> "array", s |-> ""]

UrlStrings == {"", "a.io", "http://a.io", "https://a.io/p", "a b", "http://"}

QueryInputs == {Undefined, Arr} \cup {Str(x) : x \in UrlStrings}

ResourceTypes == {"document", "script", "image", "font", "media"}

NoError == <<>>

Err(m, c) == [message |-> m, code |-> c, response |-> <<>>]

\* Errors puppeteer.launch rejects with: one carries a code, one does not.
LaunchErrorSet == {Err("Failed to launch the browser process", "undefined"),
                   Err("spawn chrome ENOENT", "ENOENT")}

\* Responses of the upload endpoint (status, data).
UploadOk == [status |-> 200, data |-> [cdnURL |-> "file.png"]]
UploadRejected == [status |-> 413, data |-> [detail |-> "too large"]]

ExtractedData == {"content-A", "content-B"}

Ops == {"newPage", "setRequestInterception", "setViewport", "setUserAgent",
        "goto1", "goto2", "waitForFunction", "scroll", "delay", "capture",
        "close", "upload"}

CleanupCallers == {"error", "targetcrashed", "disconnected", "catch"}

\* Every request launches at most one browser process.
SessionIds == 1..Cardinality(Reqs)

----------------------------------------------------------------------------
(* The state of one request as a record, and its write-back *)

View(r) ==
  [endpoint |-> endpoint[r], requested |-> requested[r], query |-> query[r], nextCalled |-> nextCalled[r],
   url |-> url[r], pc |-> pc[r], browser |-> browser[r], page |-> page[r],
   crashed |-> crashed[r], listeners |-> listeners[r],
   interception |-> interception[r], retryCount |-> retryCount[r],
   launches |-> launches[r], launchErrors |-> launchErrors[r],
   delays |-> delays[r], navigations |-> navigations[r], steps |-> steps[r], error |-> error[r],
   result |-> result[r], invoked |-> invoked[r],
   cleanupPc |-> cleanupPc[r],
   uncaught |-> uncaught[r], requests |-> requests[r], response |-> response[r],
   sid |-> sid[r], sessions |-> sessions, runtime |-> runtime,
   process |-> process]

Commit(r, s) ==
  /\ endpoint' = [endpoint EXCEPT ![r] = s.endpoint]
  /\ requested' = [requested EXCEPT ![r] = s.requested]
  /\ query' = [query EXCEPT ![r] = s.query]
  /\ nextCalled' = [nextCalled EXCEPT ![r] = s.nextCalled]
  /\ url' = [url EXCEPT ![r] = s.url]
  /\ pc' = [pc EXCEPT ![r] = s.pc]
  /\ browser' = [browser EXCEPT ![r] = s.browser]
  /\ page' = [page EXCEPT ![r] = s.page]
  /\ crashed' = [crashed EXCEPT ![r] = s.crashed]
  /\ listeners' = [listeners EXCEPT ![r] = s.listeners]
  /\ interception' = [interception EXCEPT ![r] = s.interception]
  /\ retryCount' = [retryCount EXCEPT ![r] = s.retryCount]
  /\ launches' = [launches EXCEPT ![r] = s.launches]
  /\ launchErrors' = [launchErrors EXCEPT ![r] = s.launchErrors]
  /\ delays' = [delays EXCEPT ![r] = s.delays]
  /\ navigations' = [navigations EXCEPT ![r] = s.navigations]
  /\ steps' = [steps EXCEPT ![r] = s.steps]
  /\ error' = [error EXCEPT ![r] = s.error]
  /\ result' = [result EXCEPT ![r] = s.result]
  /\ invoked' = [invoked EXCEPT ![r] = s.invoked]
  /\ cleanupPc' = [cleanupPc EXCEPT ![r] = s.cleanupPc]
  /\ uncaught' = [uncaught EXCEPT ![r] = s.uncaught]
  /\ requests' = [requests EXCEPT ![r] = s.requests]
  /\ response' = [response EXCEPT ![r] = s.response]
  /\ sid' = [sid EXCEPT ![r] = s.sid]
  /\ sessions' = s.sessions
  /\ usedBy' = IF s.sid = 0 THEN usedBy
               ELSE [usedBy EXCEPT ![s.sid] = @ \cup {r}]
  /\ process = "running"
  /\ process' = s.process
  /\ runtime' = runtime

\* A request that has not been issued.
Fresh ==
  [endpoint |-> "scrape", requested |-> Undefined, query |-> Undefined, nextCalled |-> FALSE,
   url |-> Undefined, pc |-> "absent", browser |-> "undefined",
   page |-> "undefined", crashed |-> FALSE, listeners |-> {},
   interception |-> FALSE, retryCount |-> 0, launches |-> 0,
   launchErrors |-> <<>>, delays |-> <<>>, navigations |-> <<>>,
   steps |-> [o \in Ops |-> "none"],
   error |-> NoError, result |-> [screenshot |-> "none", scrapedData |-> "none",
                                uploadResponse |-> <<>>],
   invoked |-> {},
   cleanupPc |-> [c \in CleanupCallers |-> "idle"], uncaught |-> {},
   requests |-> <<>>, response |-> <<>>, sid |-> 0]

----------------------------------------------------------------------------
(* Pure helpers *)

startsWith(s, p) == Len(s) >= Len(p) /\ SubSeq(s, 1, Len(p)) = p

\* !url : undefined and the empty string are falsy, an array is not.
Falsy(q) == q.t = "undefined" \/ (q.t = "string" /\ q.s = "")

\* Lines 44-47: prefix https:// unless the value starts with http:// or https://.
FormatUrl(u) ==
  IF ~startsWith(u, "http://") /\ ~startsWith(u, "https://")
  THEN "https://" \o u
  ELSE u

\* new URL(u) for the http and https schemes: the text after "scheme://" up
\* to the first "/", "?" or "#" is the host; parsing throws when there is no
\* scheme, when the host is empty or when it holds a space.
AfterScheme(u) ==
  IF startsWith(u, "https://") THEN SubSeq(u, 9, Len(u))
  ELSE IF startsWith(u, "http://") THEN SubSeq(u, 8, Len(u))
  ELSE ""

HostOf(rest) ==
  LET ends == {i \in 1..Len(rest) : SubSeq(rest, i, i) \in {"/", "?", "#"}}
      first == IF ends = {} THEN Len(rest) + 1
               ELSE CHOOSE i \in ends : \A j \in ends : i <= j
  IN SubSeq(rest, 1, first - 1)

ParsesAsUrl(u) ==
  LET host == HostOf(AfterScheme(u))
  IN /\ startsWith(u, "http://") \/ startsWith(u, "https://")
     /\ Len(host) > 0
     /\ \A i \in 1..Len(host) : SubSeq(host, i, i) # " "

\* Lines 278-286: the resource filter's decision for a resource type.
requestHandlerContinueAll(resourceType) == "continue"
requestHandler(resourceType) ==
  IF resourceType = "image" \/ resourceType = "font" \/ resourceType = "media"
  THEN "abort"
  ELSE "continue"

\* Line 97: the argument of delay() after the retryCount-th failed attempt.
backoffConstant(n) == backoffBase
backoff(n) == backoffBase * n

\* The awaited operations of each handler, in program order (goto2 is
\* awaited only when goto1 rejects).
screenshotOps == <<"newPage", "setUserAgent", "setViewport", "goto1",
                   "waitForFunction", "scroll", "delay", "capture", "close",
                   "upload">>
scrapeOpsFilterLate == <<"newPage", "setViewport", "setUserAgent", "goto1",
                         "setRequestInterception", "waitForFunction", "scroll",
                         "delay", "capture", "close">>
scrapeOps == <<"newPage", "setRequestInterception", "setViewport",
               "setUserAgent", "goto1", "waitForFunction", "scroll", "delay",
               "capture", "close">>

OpsOf(e) == IF e = "screenshot" THEN screenshotOps ELSE scrapeOps

IndexOf(seq, x) == CHOOSE i \in 1..Len(seq) : seq[i] = x

\* The operation awaited after op resolved ("end" after the last one).
NextOp(e, op) ==
  LET o == IF op = "goto2" THEN "goto1" ELSE op
      i == IndexOf(OpsOf(e), o)
  IN IF i = Len(OpsOf(e)) THEN "end" ELSE OpsOf(e)[i + 1]

\* The session can still serve page operations.
Alive(s) == s.browser = "connected" /\ s.page = "open" /\ ~s.crashed

----------------------------------------------------------------------------
(* Responses and the scrape cleanup routine (lines 223-240) *)

Respond(s, status, body) ==
  [s EXCEPT !.response = Append(@, [status |-> status, body |-> body])]

Finish(s) == [s EXCEPT !.pc = "done"]

\* Lines 420-427, after `await cleanup()`: the scrape error response.
scrapeErrorResponseNoDefault(s) ==
  Finish(Respond(s, 500,
    [error |-> s.error.message, code |-> s.error.code, url |-> s.url.s]))
scrapeErrorResponse(s) ==
  Finish(Respond(s, 500,
    [error |-> s.error.message,
     code |-> IF s.error.code = "undefined" THEN "UNKNOWN_ERROR" ELSE s.error.code,
     url |-> s.url.s]))

\* cleanup() has returned to `who`: the catch block sends the error
\* response; the async targetcrashed / disconnected handlers throw, which
\* nothing catches; the page "error" handler does not await cleanup.
CleanupReturnsResponds(s, who) ==
  LET s1 == [s EXCEPT !.cleanupPc[who] = "done"]
  IN CASE who = "catch" -> scrapeErrorResponse(s1)
       [] who = "targetcrashed" ->
            Respond(s1, 500, [error |-> "Browser target crashed"])
       [] who = "disconnected" ->
            Respond(s1, 500, [error |-> "Browser disconnected"])
       [] OTHER -> s1
CleanupReturns(s, who) ==
  LET s1 == [s EXCEPT !.cleanupPc[who] = "done"]
  IN CASE who = "catch" -> scrapeErrorResponse(s1)
       [] who = "targetcrashed" ->
            [s1 EXCEPT !.uncaught = @ \cup {"Browser target crashed"}]
       [] who = "disconnected" ->
            [s1 EXCEPT !.uncaught = @ \cup {"Browser disconnected"}]
       [] OTHER -> s1

\* Lines 260 and 267: an error thrown out of an async event handler is an
\* unhandled promise rejection.  The runtime logs it and goes on ("warn",
\* the default of Node 14) or ends the process ("throw", the default of
\* Node 15 and later; no unhandledRejection handler is installed).  Every
\* request in flight dies with the process.
Runtimes == {"warn", "throw"}

unhandledRejection(s, s1) ==
  IF s.runtime = "throw" /\ s1.uncaught # s.uncaught
  THEN [s1 EXCEPT !.process = "exited"]
  ELSE s1

\* Lines 230-236: if (browser) await browser.close().catch(...)
CleanupBrowserPart(s, who) ==
  IF s.browser # "undefined"
  THEN [s EXCEPT !.cleanupPc[who] = "browser.close",
                 !.invoked = @ \cup {"browser.close"}]
  ELSE CleanupReturns(s, who)

\* Lines 226-228: page.close() rejected; its own .catch logs the error and
\* cleanup goes on to the browser.
pageCloseRejectedSkipsBrowser(s, who) == CleanupReturns(s, who)
pageCloseRejected(s, who) == CleanupBrowserPart(s, who)

\* Lines 224-229: if (page) await page.close().catch(...)
cleanup(s, who) ==
  IF s.page # "undefined"
  THEN [s EXCEPT !.cleanupPc[who] = "page.close",
                 !.invoked = @ \cup {"page.close"}]
  ELSE CleanupBrowserPart(s, who)

\* Lines 264-268: the browser emits "disconnected"; the handler, when
\* registered, logs and awaits cleanup().
EmitDisconnected(s) ==
  IF "disconnected" \in s.listeners THEN cleanup(s, "disconnected") ELSE s

\* The browser process has ended after browser.close(): its pages are gone
\* and, if the connection was still up, "disconnected" is emitted.
BrowserClosed(s) ==
  LET s1 == [s EXCEPT !.browser = "closed",
                      !.page = IF @ = "open" THEN "closed" ELSE @]
  IN IF s.browser = "connected" THEN EmitDisconnected(s1) ELSE s1

----------------------------------------------------------------------------
(* The catch blocks *)

\* Lines 203-213: no teardown; the upstream response is passed through
\* when the error carries one.
screenshotCatchAlways500(s, e) ==
  Finish(Respond([s EXCEPT !.error = e], 500, [error |-> e.message]))
screenshotCatch(s, e) ==
  LET s1 == [s EXCEPT !.error = e]
  IN IF e.response # <<>>
     THEN Finish(Respond(s1, e.response[1].status, e.response[1].data))
     ELSE Finish(Respond(s1, 500, [error |-> e.message]))

\* Lines 420-422: log, then await cleanup(); the response follows when
\* cleanup returns.
scrapeCatch(s, e) ==
  cleanup([s EXCEPT !.error = e, !.pc = "cleanup"], "catch")

Throw(s, e) ==
  IF s.endpoint = "screenshot" THEN screenshotCatch(s, e) ELSE scrapeCatch(s, e)

----------------------------------------------------------------------------
(* validateUrl (lines 37-55) and launchBrowser (lines 57-100) *)

\* Lines 61-63: one more puppeteer.launch call.
launchAttempt(s) == [s EXCEPT !.launches = @ + 1, !.pc = "launch"]

\* Lines 104-109 / 218-243: the handler reads req.query.url and awaits
\* launchBrowser().
Handler(s) == launchAttempt([s EXCEPT !.url = s.query])

\* Lines 432-441: the error middleware.
errorMiddleware(s, message) ==
  Finish(Respond(s, 500,
    [error |-> "Internal server error", message |-> message,
     path |-> "/" \o s.endpoint, method |-> "GET"]))

\* Line 46: req.query.url = url.
writeBackOmitted(s, u) == s
writeBack(s, u) == [s EXCEPT !.query = Str(u)]

validateUrl(s) ==
  LET q == s.query
  IN IF Falsy(q)
     THEN Finish(Respond(s, 400, [error |-> "URL parameter is required"]))
     ELSE IF q.t # "string"
     THEN errorMiddleware(s, "url.startsWith is not a function")
     ELSE LET u == FormatUrl(q.s)
              s1 == IF u # q.s THEN writeBack(s, u) ELSE s
          IN IF ParsesAsUrl(u)
             THEN Handler([s1 EXCEPT !.nextCalled = TRUE])
             ELSE Finish(Respond(s1, 400, [error |-> "Invalid URL format"]))

\* Lines 91-98: a launch attempt rejected with e.
launchRejectedThrowsFirst(s, e) ==
  LET n == s.retryCount + 1
      s1 == [s EXCEPT !.retryCount = n, !.launchErrors = Append(@, e)]
  IN IF n = maxRetries
     THEN Throw(s1, s1.launchErrors[1])
     ELSE [s1 EXCEPT !.delays = Append(@, backoff(n)), !.pc = "launchDelay"]
launchRejected(s, e) ==
  LET n == s.retryCount + 1
      s1 == [s EXCEPT !.retryCount = n, !.launchErrors = Append(@, e)]
  IN IF n = maxRetries
     THEN Throw(s1, e)
     ELSE [s1 EXCEPT !.delays = Append(@, backoff(n)), !.pc = "launchDelay"]

----------------------------------------------------------------------------
(* The awaited operations of the handlers *)

Ok(v) == [ok |-> TRUE, value |-> v]
Fail(e) == [ok |-> FALSE, error |-> e]

UploadError == [message |-> "Request failed with status code 413",
                code |-> "ERR_BAD_REQUEST", response |-> <<UploadRejected>>]
TransportError == Err("connect ECONNREFUSED", "ECONNREFUSED")

\* What the environment may answer to the awaited operation op: page
\* operations succeed only on a live session, delay always resolves,
\* the upload does not depend on the browser.
Outcomes(s, op) ==
  CASE op = "newPage" ->
         (IF s.browser = "connected" THEN {Ok("page")} ELSE {})
           \cup {Fail(Err("newPage failed", "undefined"))}
    [] op = "delay" -> {Ok("elapsed")}
    [] op = "close" ->
         {Ok("closed")} \cup
           (IF s.browser # "closed"
            THEN {Fail(Err("browser.close failed", "undefined"))} ELSE {})
    [] op = "upload" ->
         {Ok(UploadOk), Fail(UploadError), Fail(TransportError)}
    [] op = "capture" /\ s.endpoint = "scrape" ->
         (IF Alive(s) THEN {Ok(d) : d \in ExtractedData} ELSE {})
           \cup {Fail(Err("evaluate failed", "undefined"))}
    [] OTHER ->
         (IF Alive(s) THEN {Ok("done")} ELSE {})
           \cup {Fail(Err(op \o " failed", "undefined"))}

\* Lines 199 and 414-417: the success responses.
successResponseOriginalUrl(s) ==
  IF s.endpoint = "screenshot"
  THEN Respond(s, s.result.uploadResponse[1].status, s.result.uploadResponse[1].data)
  ELSE Respond(s, 200, [url |-> s.requested.s, data |-> s.result.scrapedData])
successResponse(s) ==
  IF s.endpoint = "screenshot"
  THEN Respond(s, s.result.uploadResponse[1].status, s.result.uploadResponse[1].data)
  ELSE Respond(s, 200, [url |-> s.url.s, data |-> s.result.scrapedData])

\* Lines 126-129 / 299-302 and 135-138 / 308-311: page.goto(url, ...).
goto(s, waitUntil) ==
  [s EXCEPT !.navigations = Append(@, [url |-> s.url.s, waitUntil |-> waitUntil]),
            !.pc = IF waitUntil = "networkidle0" THEN "goto1" ELSE "goto2"]

\* The code after op resolved, up to the next await.
Continue(s, op) ==
  LET nxt == NextOp(s.endpoint, op)
  IN IF nxt = "end" THEN Finish(successResponse(s))
     ELSE IF nxt = "goto1" THEN goto(s, "networkidle0")
     ELSE [s EXCEPT !.pc = nxt]

\* Lines 246-268 and 276: the listeners /scrape registers at once after
\* newPage, and the request listener after setRequestInterception.
Effect(s, op, v) ==
  CASE op = "newPage" ->
         [s EXCEPT !.page = "open",
                   !.listeners = IF s.endpoint = "scrape"
                                 THEN @ \cup {"error", "pageerror", "targetcrashed",
                                              "disconnected"}
                                 ELSE @]
    [] op = "setRequestInterception" ->
         [s EXCEPT !.interception = TRUE, !.listeners = @ \cup {"request"}]
    [] op = "capture" ->
         IF s.endpoint = "screenshot"
         THEN [s EXCEPT !.result.screenshot = "png"]
         ELSE [s EXCEPT !.result.scrapedData = v]
    [] op = "close" ->
         BrowserClosed([s EXCEPT !.invoked = @ \cup {"browser.close"}])
    [] op = "upload" -> [s EXCEPT !.result.uploadResponse = <<v>>]
    [] OTHER -> s

Resolved(s, op, v) ==
  Continue(Effect([s EXCEPT !.steps[op] = "ok"], op, v), op)

\* Lines 130-138 / 303-311: the strict goto rejected: retry with
\* domcontentloaded.
gotoStrictRejectedThrows(s, e) == Throw(s, e)
gotoStrictRejected(s, e) == goto(s, "domcontentloaded")

\* Lines 159-163 / 332-336: the probe rejected: log and go on.
probeRejectedThrows(s, e) == Throw(s, e)
probeRejected(s, e) == Continue(s, "waitForFunction")

RejectedFallbackIgnored(s, op, e) ==
  LET s1 == [s EXCEPT !.steps[op] = "fail",
                      !.invoked = IF op = "close" THEN @ \cup {"browser.close"} ELSE @]
  IN CASE op = "goto1" -> gotoStrictRejected(s1, e)
       [] op = "waitForFunction" -> probeRejected(s1, e)
       [] op = "goto2" -> Continue(s1, "goto2")
       [] OTHER -> Throw(s1, e)
Rejected(s, op, e) ==
  LET s1 == [s EXCEPT !.steps[op] = "fail",
                      !.invoked = IF op = "close" THEN @ \cup {"browser.close"} ELSE @]
  IN CASE op = "goto1" -> gotoStrictRejected(s1, e)
       [] op = "waitForFunction" -> probeRejected(s1, e)
       [] OTHER -> Throw(s1, e)

Settle(s, op, o) ==
  IF o.ok THEN Resolved(s, op, o.value) ELSE Rejected(s, op, o.error)

InFlight(r) == pc[r] \notin {"absent", "new", "done"}

\* The request r is awaiting op and op settles.
Await(r, op) ==
  /\ InFlight(r)
  /\ \E o \in Outcomes(View(r), op) : Commit(r, Settle(View(r), op, o))

----------------------------------------------------------------------------
(* Actions *)

\* Express runs validateUrl and, through next(), the handler up to its
\* first await.
ValidateUrl(r) ==
  /\ pc[r] = "new"
  /\ Commit(r, validateUrl(View(r)))

\* Lines 63-90 and 109-111 / 243-244: puppeteer.launch resolved; the
\* handler goes on to browser.newPage().
\* launchBrowser's frame (retryCount and the record of its attempts) is
\* dropped when it returns; after a throw it is kept as the record of the
\* failed launch.
\* Every puppeteer.launch that resolves has started a new browser process;
\* the handler keeps it in its own `let browser` (lines 106 / 220).
launchResolvedPooled(s) ==
  [s EXCEPT !.browser = "connected", !.pc = "newPage", !.retryCount = 0,
            !.launches = 0, !.launchErrors = <<>>, !.delays = <<>>,
            !.sid = 1, !.sessions = IF @ = 0 THEN 1 ELSE @]
launchResolved(s) ==
  [s EXCEPT !.browser = "connected", !.pc = "newPage", !.retryCount = 0,
            !.launches = 0, !.launchErrors = <<>>, !.delays = <<>>,
            !.sid = s.sessions + 1, !.sessions = @ + 1]

Launch(r) ==
  /\ pc[r] = "launch"
  /\ \/ Commit(r, launchResolved(View(r)))
     \/ \E e \in LaunchErrorSet : Commit(r, launchRejected(View(r), e))

\* Lines 97 and 61: the backoff delay elapsed; the loop tries again.
LaunchDelay(r) ==
  /\ pc[r] = "launchDelay"
  /\ retryCount[r] < maxRetries
  /\ Commit(r, launchAttempt(View(r)))

NewPage(r) == pc[r] = "newPage" /\ Await(r, "newPage")
SetRequestInterception(r) == pc[r] = "setRequestInterception" /\ Await(r, "setRequestInterception")
SetViewport(r) == pc[r] = "setViewport" /\ Await(r, "setViewport")
SetUserAgent(r) == pc[r] = "setUserAgent" /\ Await(r, "setUserAgent")
GotoStrict(r) == pc[r] = "goto1" /\ Await(r, "goto1")
GotoFallback(r) == pc[r] = "goto2" /\ Await(r, "goto2")
WaitForFunction(r) == pc[r] = "waitForFunction" /\ Await(r, "waitForFunction")
Scroll(r) == pc[r] = "scroll" /\ Await(r, "scroll")
Delay(r) == pc[r] = "delay" /\ Await(r, "delay")
Capture(r) == pc[r] = "capture" /\ Await(r, "capture")
BrowserClose(r) == pc[r] = "close" /\ Await(r, "close")
Upload(r) == pc[r] = "upload" /\ Await(r, "upload")

\* Lines 226-229: page.close() of a cleanup invocation settles (a
\* rejection is logged by .catch); cleanup goes on to the browser.
CleanupPageClose(r, who) ==
  /\ cleanupPc[r][who] = "page.close"
  /\ LET s == View(r)
     IN \/ /\ s.page = "open" /\ s.browser = "connected"
           /\ Commit(r, CleanupBrowserPart([s EXCEPT !.page = "closed"], who))
        \/ Commit(r, pageCloseRejected(s, who))

\* Lines 231-235: browser.close() of a cleanup invocation settles;
\* cleanup returns to its caller.
CleanupBrowserClose(r, who) ==
  /\ cleanupPc[r][who] = "browser.close"
  /\ LET s == View(r)
     IN \/ Commit(r, unhandledRejection(s, CleanupReturns(BrowserClosed(s), who)))
        \/ /\ s.browser # "closed"
           /\ Commit(r, unhandledRejection(s, CleanupReturns(s, who)))

\* Lines 247-250 and 257-261: a render target crashes.  The page emits
\* "error"; the browser may emit "targetcrashed".
onTargetCrash(s, browserEvent) ==
  LET s1 == [s EXCEPT !.crashed = TRUE]
      s2 == IF "error" \in s1.listeners THEN cleanup(s1, "error") ELSE s1
  IN IF browserEvent /\ "targetcrashed" \in s2.listeners
     THEN cleanup(s2, "targetcrashed")
     ELSE s2

TargetCrash(r) ==
  /\ InFlight(r)
  /\ Alive(View(r))
  /\ \E browserEvent \in BOOLEAN : Commit(r, onTargetCrash(View(r), browserEvent))

\* Lines 264-268: the control channel of the browser is lost.
onDisconnect(s) ==
  EmitDisconnected([s EXCEPT !.browser = "disconnected",
                             !.page = IF @ = "open" THEN "closed" ELSE @])

Disconnect(r) ==
  /\ InFlight(r)
  /\ browser[r] = "connected"
  /\ Commit(r, onDisconnect(View(r)))

\* Lines 275-287: the page issues a request.  Without interception it goes
\* to the network; with interception the "request" listener decides; with
\* interception and no listener it stays pending.
onRequest(s, resourceType) ==
  LET fate == IF ~s.interception THEN "network"
              ELSE IF "request" \notin s.listeners THEN "stalled"
              ELSE IF requestHandler(resourceType) = "abort" THEN "aborted"
              ELSE "continued"
  IN [s EXCEPT !.requests =
        Append(@, [type |-> resourceType, fate |-> fate,
                   aborts |-> IF fate = "aborted" THEN 1 ELSE 0,
                   continues |-> IF fate = "continued" THEN 1 ELSE 0])]

Navigating == {"goto1", "goto2", "waitForFunction", "scroll", "delay", "capture"}

PageRequest(r) ==
  /\ pc[r] \in Navigating
  /\ Alive(View(r))
  /\ Len(requests[r]) < MaxPageRequests
  /\ \E resourceType \in ResourceTypes : Commit(r, onRequest(View(r), resourceType))

----------------------------------------------------------------------------
(* Specification *)

InitRequest(r, e, q) ==
  [Fresh EXCEPT !.endpoint = e, !.requested = q, !.query = q, !.pc = "new"]

\* The server after app.listen (line 444), with the requests `st` received
\* and the unhandled-rejections mode `rt` of the runtime.
Started(st, rt) ==
       /\ endpoint = [r \in Reqs |-> st[r].endpoint]
       /\ requested = [r \in Reqs |-> st[r].requested]
       /\ query = [r \in Reqs |-> st[r].query]
       /\ nextCalled = [r \in Reqs |-> st[r].nextCalled]
       /\ url = [r \in Reqs |-> st[r].url]
       /\ pc = [r \in Reqs |-> st[r].pc]
       /\ browser = [r \in Reqs |-> st[r].browser]
       /\ page = [r \in Reqs |-> st[r].page]
       /\ crashed = [r \in Reqs |-> st[r].crashed]
       /\ listeners = [r \in Reqs |-> st[r].listeners]
       /\ interception = [r \in Reqs |-> st[r].interception]
       /\ retryCount = [r \in Reqs |-> st[r].retryCount]
       /\ launches = [r \in Reqs |-> st[r].launches]
       /\ launchErrors = [r \in Reqs |-> st[r].launchErrors]
       /\ delays = [r \in Reqs |-> st[r].delays]
       /\ navigations = [r \in Reqs |-> st[r].navigations]
       /\ steps = [r \in Reqs |-> st[r].steps]
       /\ error = [r \in Reqs |-> st[r].error]
       /\ result = [r \in Reqs |-> st[r].result]
       /\ invoked = [r \in Reqs |-> st[r].invoked]
       /\ cleanupPc = [r \in Reqs |-> st[r].cleanupPc]
       /\ uncaught = [r \in Reqs |-> st[r].uncaught]
       /\ requests = [r \in Reqs |-> st[r].requests]
       /\ response = [r \in Reqs |-> st[r].response]
       /\ sid = [r \in Reqs |-> st[r].sid]
       /\ sessions = 0
       /\ usedBy = [i \in SessionIds |-> {}]
       /\ runtime = rt
       /\ process = "running"

\* One request is received; the other request id is never used.  The
\* runtime logs unhandled rejections: the states of a process that exits on
\* one are the states of this process up to the exit.
Init ==
  \E e \in Endpoints, q \in QueryInputs :
    Started([r \in Reqs |-> IF r = "r1" THEN InitRequest(r, e, q) ELSE Fresh],
            "warn")

RequestStep(r) ==
    \/ ValidateUrl(r)
    \/ Launch(r)
    \/ LaunchDelay(r)
    \/ NewPage(r)
    \/ SetRequestInterception(r)
    \/ SetViewport(r)
    \/ SetUserAgent(r)
    \/ GotoStrict(r)
    \/ GotoFallback(r)
    \/ WaitForFunction(r)
    \/ Scroll(r)
    \/ Delay(r)
    \/ Capture(r)
    \/ BrowserClose(r)
    \/ Upload(r)
    \/ \E who \in CleanupCallers : CleanupPageClose(r, who)
    \/ \E who \in CleanupCallers : CleanupBrowserClose(r, who)
    \/ TargetCrash(r)
    \/ Disconnect(r)
    \/ PageRequest(r)

Next == \E r \in Reqs : RequestStep(r)

Spec == Init /\ [][Next]_vars

\* Two requests in flight at once, on any pair of endpoints, under either
\* runtime.  The URL is fixed and the browsers suffer no fault from
\* outside: what is left is the handlers' own interleaving.
ConcUrl == Str("http://a.io")

InitConc ==
  \E e1 \in Endpoints, e2 \in Endpoints, rt \in Runtimes :
    Started([r \in Reqs |-> InitRequest(r, IF r = "r1" THEN e1 ELSE e2, ConcUrl)],
            rt)

NextConc ==
  \E r \in Reqs :
    \/ ValidateUrl(r)
    \/ Launch(r)
    \/ LaunchDelay(r)
    \/ NewPage(r)
    \/ SetRequestInterception(r)
    \/ SetViewport(r)
    \/ SetUserAgent(r)
    \/ GotoStrict(r)
    \/ GotoFallback(r)
    \/ WaitForFunction(r)
    \/ Scroll(r)
    \/ Delay(r)
    \/ Capture(r)
    \/ BrowserClose(r)
    \/ Upload(r)
    \/ \E who \in CleanupCallers : CleanupPageClose(r, who)
    \/ \E who \in CleanupCallers : CleanupBrowserClose(r, who)

SpecConc == InitConc /\ [][NextConc]_vars

----------------------------------------------------------------------------
(* Claims *)

Launched(r) == browser[r] # "undefined"

\* C1: once the request handler has finished, the browser launched for the
\* request has been closed, on both endpoints and on every path after a
\* successful launch.  Stated in its weakest form: close has at least been
\* called on the browser.
C1_BrowserClosedWhenHandlerFinished ==
  \A r \in Reqs :
    (pc[r] = "done" /\ Launched(r)) => "browser.close" \in invoked[r]

\* C2: the response is never sent while the browser session of the request
\* is still alive: the close of the browser completes first.
C2_NoResponseWhileSessionAlive ==
  \A r \in Reqs :
    (response[r] # <<>> /\ Launched(r)) => browser[r] = "closed"

\* A render target crashed or the browser disconnected after navigation
\* began and before the capture / extraction completed.
FaultInFlight(r) ==
  /\ navigations[r] # <<>>
  /\ steps[r]["capture"] # "ok"
  /\ crashed[r] \/ browser[r] = "disconnected"

\* C3: when a render target crashes or the browser disconnects while the
\* request is in flight (navigation, readiness probe or extraction), the
\* session is torn down (page.close and browser.close are invoked) and the
\* request ends with an error response.
C3_CrashTearsDownSession ==
  \A r \in Reqs :
    (pc[r] = "done" /\ FaultInFlight(r)) =>
      /\ {"page.close", "browser.close"} \subseteq invoked[r]
      /\ Len(response[r]) = 1
      /\ response[r][1].status = 500

\* launchBrowser threw: the handler caught an error and holds no browser.
LaunchFailed(r) == error[r] # NoError /\ browser[r] = "undefined"

\* C4: when every launch attempt fails, exactly 3 launch attempts were
\* made, the backoff delays between them are strictly increasing and the
\* error thrown to the caller is the error of the third attempt.
C4_LaunchExhausted ==
  \A r \in Reqs :
    LaunchFailed(r) =>
      /\ launches[r] = 3
      /\ Len(launchErrors[r]) = 3
      /\ Len(delays[r]) = 2
      /\ \A i \in 1..(Len(delays[r]) - 1) : delays[r][i] < delays[r][i + 1]
      /\ error[r] = launchErrors[r][3]

C4_Witness ==
  \E r \in Reqs :
    /\ LaunchFailed(r)
    /\ Len(launchErrors[r]) = 3
    /\ launchErrors[r][1] # launchErrors[r][3]
    /\ launchErrors[r][2] # launchErrors[r][3]
    /\ error[r] = launchErrors[r][3]
    /\ delays[r] = <<2000, 4000>>

HasScheme(x) == startsWith(x, "http://") \/ startsWith(x, "https://")

\* The url value is missing, is not a string, or does not parse as an
\* absolute URL once https:// is put in front of a value without scheme.
Malformed(q) ==
  \/ q.t # "string"
  \/ ~ParsesAsUrl(IF HasScheme(q.s) THEN q.s ELSE "https://" \o q.s)

\* C5: a request whose url parameter is missing or malformed is answered
\* with status 400, the endpoint handler does not run and no browser launch
\* is attempted; validateUrl never both sends a 400 and calls next.
C5_MalformedUrlRejected ==
  \A r \in Reqs :
    /\ (pc[r] \notin {"absent", "new"} /\ Malformed(requested[r])) =>
         /\ Len(response[r]) = 1
         /\ response[r][1].status = 400
         /\ ~nextCalled[r]
         /\ launches[r] = 0
         /\ browser[r] = "undefined"
    /\ ~(nextCalled[r] /\ \E i \in 1..Len(response[r]) : response[r][i].status = 400)

\* The URL the claim expects downstream for the requested value x.
EffectiveUrl(x) == IF HasScheme(x) THEN x ELSE "https://" \o x

\* C6: downstream of validation (the handler's url, the target of both
\* goto attempts, the url field of the scrape response or error body) the
\* URL is the requested value prefixed with https:// when it had no
\* scheme, and the requested value unchanged when it starts with http://
\* or https://.
C6_EffectiveUrlDownstream ==
  \A r \in Reqs :
    nextCalled[r] =>
      LET eff == EffectiveUrl(requested[r].s)
      IN /\ url[r] = Str(eff)
         /\ \A i \in 1..Len(navigations[r]) : navigations[r][i].url = eff
         /\ (endpoint[r] = "scrape" /\ response[r] # <<>>) =>
              response[r][1].body.url = eff

C6_Witness ==
  \E r \in Reqs :
    /\ endpoint[r] = "scrape"
    /\ requested[r] = Str("a.io")
    /\ Len(navigations[r]) = 2
    /\ navigations[r][2].url = "https://a.io"
    /\ response[r] # <<>>
    /\ response[r][1].body.url = "https://a.io"

\* The steps after the readiness probe all succeeded.
LaterStepsOk(r) ==
  \A op \in {"scroll", "delay", "capture", "close"}
            \cup (IF endpoint[r] = "screenshot" THEN {"upload"} ELSE {}) :
    steps[r][op] = "ok"

\* The request was answered once, with the success response of its endpoint.
SuccessResponse(r) ==
  /\ Len(response[r]) = 1
  /\ IF endpoint[r] = "scrape"
     THEN /\ result[r].scrapedData \in ExtractedData
          /\ response[r][1] =
               [status |-> 200,
                body |-> [url |-> url[r].s, data |-> result[r].scrapedData]]
     ELSE response[r][1] = [status |-> UploadOk.status, body |-> UploadOk.data]

\* C7: when the strict goto rejects the request does not fail on that
\* alone: the fallback goto is awaited; when the fallback resolves the
\* readiness probe follows, and if the later steps succeed the request
\* ends with the success response.
C7_FallbackNavigationContinues ==
  \A r \in Reqs :
    /\ (steps[r]["goto1"] = "fail" /\ steps[r]["goto2"] = "none") =>
         (pc[r] = "goto2" /\ response[r] = <<>>)
    /\ (steps[r]["goto1"] = "fail" /\ steps[r]["goto2"] = "ok") =>
         (pc[r] = "waitForFunction" \/ steps[r]["waitForFunction"] # "none")
    /\ (/\ pc[r] = "done"
        /\ steps[r]["goto1"] = "fail"
        /\ steps[r]["goto2"] = "ok"
        /\ LaterStepsOk(r)) => SuccessResponse(r)

C7_Witness ==
  \E r \in Reqs :
    /\ pc[r] = "done"
    /\ endpoint[r] = "screenshot"
    /\ steps[r]["goto1"] = "fail"
    /\ steps[r]["goto2"] = "ok"
    /\ steps[r]["waitForFunction"] = "ok"
    /\ LaterStepsOk(r)
    /\ SuccessResponse(r)

\* C8: a rejected readiness probe alone never fails the request: the
\* scroll step is awaited next, the capture / extraction follows it, and
\* if those steps succeed the request ends with the success response.
C8_ProbeFailureNotFatal ==
  \A r \in Reqs :
    /\ steps[r]["waitForFunction"] = "fail" =>
         (pc[r] = "scroll" \/ steps[r]["scroll"] # "none")
    /\ (steps[r]["waitForFunction"] = "fail" /\ steps[r]["scroll"] = "ok") =>
         (pc[r] \in {"delay", "capture"} \/ steps[r]["capture"] # "none")
    /\ (/\ pc[r] = "done"
        /\ steps[r]["waitForFunction"] = "fail"
        /\ LaterStepsOk(r)) => SuccessResponse(r)

C8_Witness ==
  \E r \in Reqs :
    /\ pc[r] = "done"
    /\ endpoint[r] = "scrape"
    /\ steps[r]["goto1"] = "ok"
    /\ steps[r]["waitForFunction"] = "fail"
    /\ LaterStepsOk(r)
    /\ SuccessResponse(r)

Blocked == {"image", "font", "media"}

\* C9: on the scrape path every request of the page is resolved exactly
\* once: aborted if its type is image, font or media, continued otherwise;
\* no image, font or media request goes to the network.
C9_ResourceFilter ==
  \A r \in Reqs :
    endpoint[r] = "scrape" =>
      \A i \in 1..Len(requests[r]) :
        LET q == requests[r][i]
        IN /\ q.aborts + q.continues = 1
           /\ q.type \in Blocked => (q.aborts = 1 /\ q.fate = "aborted")
           /\ q.type \notin Blocked => (q.continues = 1 /\ q.fate = "continued")

C9_Witness ==
  \E r \in Reqs :
    /\ endpoint[r] = "scrape"
    /\ \E i \in 1..Len(requests[r]) :
         /\ requests[r][i].type \in Blocked
         /\ requests[r][i].fate = "aborted"
         /\ requests[r][i].continues = 0

\* C10: on the scrape path interception is enabled and the request
\* listener is registered before the first goto is issued, so no request
\* of the page during either navigation attempt escapes the filter.
C10_FilterInstalledBeforeNavigation ==
  \A r \in Reqs :
    endpoint[r] = "scrape" =>
      /\ (navigations[r] # <<>> \/ pc[r] \in {"goto1", "goto2"}) =>
           (interception[r] /\ "request" \in listeners[r])
      /\ \A i \in 1..Len(requests[r]) :
           requests[r][i].fate \notin {"network", "stalled"}

C10_Witness ==
  \E r \in Reqs :
    /\ endpoint[r] = "scrape"
    /\ pc[r] = "goto2"
    /\ interception[r]
    /\ Len(requests[r]) > 0
    /\ requests[r][1].fate \in {"aborted", "continued"}

----------------------------------------------------------------------------
(* The responses of the two endpoints *)

\* The request passed validation and its handler has returned.
Answered(r, e) == endpoint[r] = e /\ nextCalled[r] /\ pc[r] = "done"

ScrapeSucceeded(r) == Answered(r, "scrape") /\ steps[r]["close"] = "ok"

\* C12 as stated: a successful scrape is answered 200 with {url, data},
\* url being the URL as the client sent it and data the extracted content.
C12_OriginalUrlReturned ==
  \A r \in Reqs :
    ScrapeSucceeded(r) =>
      response[r] = <<[status |-> 200,
                       body |-> [url |-> requested[r].s,
                                 data |-> result[r].scrapedData]]>>

\* C12: a successful scrape is answered once, with status 200 and the body
\* {url, data}: url is the requested URL as validation rewrote it (with
\* https:// in front when it had no scheme, unchanged otherwise) and data
\* is the content the extraction step returned.
C12_SuccessEnvelope ==
  \A r \in Reqs :
    ScrapeSucceeded(r) =>
      /\ steps[r]["capture"] = "ok"
      /\ result[r].scrapedData \in ExtractedData
      /\ response[r] = <<[status |-> 200,
                          body |-> [url |-> EffectiveUrl(requested[r].s),
                                    data |-> result[r].scrapedData]]>>

C12_Witness ==
  \E r \in Reqs :
    /\ ScrapeSucceeded(r)
    /\ requested[r].s = "a.io"
    /\ response[r][1].body.url = "https://a.io"

\* The awaited operations whose rejection reaches the handler's catch block.
FatalOps == Ops \ {"goto1", "waitForFunction"}

\* launchBrowser threw: every attempt failed and no browser was ever set.
LaunchExhausted(r) ==
  browser[r] = "undefined" /\ Len(launchErrors[r]) = maxRetries

\* The try block of the handler threw.
HandlerFailed(r) ==
  LaunchExhausted(r) \/ \E op \in FatalOps : steps[r][op] = "fail"

\* The error of the failure that ended the /scrape handler's try block.
ScrapeFailure(r) ==
  IF LaunchExhausted(r) THEN launchErrors[r][maxRetries]
  ELSE LET op == CHOOSE o \in FatalOps : steps[r][o] = "fail"
       IN Err(CASE op = "capture" -> "evaluate failed"
                [] op = "close" -> "browser.close failed"
                [] OTHER -> op \o " failed",
              "undefined")

\* C13: on /scrape every failure after validation (launch exhausted,
\* newPage, both navigations, scroll, extraction, close) is answered once,
\* with status 500 and the body {error, code, url}: error is the message of
\* the failure, code its code or UNKNOWN_ERROR, url the request's URL.
\* Until cleanup() returns to the catch block nothing is sent.
C13_ScrapeErrorResponse ==
  \A r \in Reqs :
    endpoint[r] = "scrape" /\ nextCalled[r] /\ HandlerFailed(r) =>
      IF pc[r] = "done"
      THEN response[r] =
             <<[status |-> 500,
                body |-> [error |-> ScrapeFailure(r).message,
                          code |-> IF ScrapeFailure(r).code = "undefined"
                                   THEN "UNKNOWN_ERROR" ELSE ScrapeFailure(r).code,
                          url |-> EffectiveUrl(requested[r].s)]]>>
      ELSE /\ pc[r] = "cleanup"
           /\ cleanupPc[r]["catch"] \in {"page.close", "browser.close"}
           /\ response[r] = <<>>

C13_Witness ==
  \E r \in Reqs :
    /\ Answered(r, "scrape")
    /\ steps[r]["goto1"] = "fail"
    /\ steps[r]["goto2"] = "fail"
    /\ response[r][1].status = 500
    /\ response[r][1].body.code = "UNKNOWN_ERROR"

\* C15: a request navigates at most twice: first with networkidle0; the
\* domcontentloaded goto is issued exactly when the first goto has failed,
\* once; when it fails too nothing later in the handler runs and the
\* request is answered with the error response.
C15_AtMostTwoNavigations ==
  \A r \in Reqs :
    /\ Len(navigations[r]) <= 2
    /\ Len(navigations[r]) >= 1 => navigations[r][1].waitUntil = "networkidle0"
    /\ Len(navigations[r]) = 2 <=> steps[r]["goto1"] = "fail"
    /\ Len(navigations[r]) = 2 => navigations[r][2].waitUntil = "domcontentloaded"
    /\ steps[r]["goto2"] # "none" => Len(navigations[r]) = 2
    /\ steps[r]["goto2"] = "fail" =>
         /\ \A op \in {"waitForFunction", "scroll", "delay", "capture", "close",
                        "upload"} : steps[r][op] = "none"
         /\ pc[r] \in {"cleanup", "done"}
         /\ error[r] # NoError
         /\ error[r].message = "goto2 failed"
         /\ pc[r] = "done" =>
              /\ Len(response[r]) = 1
              /\ response[r][1].status = 500
              /\ response[r][1].body.error = "goto2 failed"

C15_Witness ==
  \E r \in Reqs :
    /\ steps[r]["goto1"] = "fail"
    /\ steps[r]["goto2"] = "fail"
    /\ pc[r] = "done"
    /\ Len(navigations[r]) = 2

\* The waits of launchBrowser after its first n failed attempts.
Waits(n) == [k \in 1..n |-> 2000 * k]

\* C16: launchBrowser makes between 1 and 3 launch attempts and ends: while
\* it runs, the k-th failed attempt (k = 1, 2) has been followed by a wait
\* of 2000 * k ms and then by the next attempt; after the third failed
\* attempt it throws without a third wait; once an attempt succeeded it has
\* returned and no further attempt is made.
C16_LaunchTerminates ==
  \A r \in Reqs :
    /\ launches[r] <= 3
    /\ pc[r] = "launch" =>
         /\ launches[r] \in 1..3
         /\ retryCount[r] = launches[r] - 1
         /\ Len(launchErrors[r]) = retryCount[r]
         /\ delays[r] = Waits(retryCount[r])
    /\ pc[r] = "launchDelay" =>
         /\ retryCount[r] \in {1, 2}
         /\ launches[r] = retryCount[r]
         /\ delays[r] = Waits(retryCount[r])
    /\ LaunchExhausted(r) =>
         /\ launches[r] = 3
         /\ delays[r] = Waits(2)
         /\ pc[r] \notin {"launch", "launchDelay"}
    /\ browser[r] # "undefined" =>
         /\ launches[r] = 0
         /\ pc[r] \notin {"launch", "launchDelay"}

C16_Witness ==
  \E r \in Reqs :
    /\ pc[r] = "launch"
    /\ launches[r] = 3
    /\ delays[r] = <<2000, 4000>>

\* C17: a request that passed validation is answered at most once on every
\* path, the paths on which the page-error, targetcrashed or disconnected
\* handler runs beside the request handler included; when the handler has
\* returned it was answered exactly once, with the success response or
\* with an error response, never both.
C17_AtMostOneResponse ==
  \A r \in Reqs :
    nextCalled[r] =>
      /\ Len(response[r]) <= 1
      /\ pc[r] = "done" <=> Len(response[r]) = 1
      /\ pc[r] = "done" /\ endpoint[r] = "scrape" =>
           (response[r][1].status = 200 <=> ~HandlerFailed(r))

C17_Witness ==
  \E r \in Reqs :
    /\ nextCalled[r]
    /\ Len(response[r]) = 1
    /\ crashed[r]
    /\ cleanupPc[r]["error"] = "done"
    /\ cleanupPc[r]["disconnected"] = "done"
    /\ cleanupPc[r]["catch"] = "done"

\* C19: when a /scrape request meets no crash and no loss of
\* the browser, the browser.close() at the end of its handler does not
\* start the disconnected handler's teardown.
C19_NormalCloseIsQuiet ==
  [][\A r \in Reqs :
       /\ endpoint[r] = "scrape"
       /\ pc[r] = "close"
       /\ browser[r] = "connected"
       /\ ~crashed[r]
       /\ steps'[r]["close"] = "ok"
       => /\ cleanupPc'[r]["disconnected"] = "idle"
          /\ uncaught'[r] = {}]_vars

\* C20: cleanup() may run several times and at once: from the page-error,
\* targetcrashed and disconnected handlers and from the catch block, with
\* page and browser set or undefined, whatever its close calls answer.  It
\* never rejects: each caller goes on after it (the catch block answers,
\* the two async handlers throw their own error); and once an invocation
\* has returned, the browser, when one was launched, has had close invoked.
C20_CleanupSafe ==
  \A r \in Reqs :
    /\ cleanupPc[r]["catch"] = "done" => pc[r] = "done" /\ Len(response[r]) = 1
    /\ cleanupPc[r]["targetcrashed"] = "done" =>
         "Browser target crashed" \in uncaught[r]
    /\ cleanupPc[r]["disconnected"] = "done" =>
         "Browser disconnected" \in uncaught[r]
    /\ \A who \in CleanupCallers :
         /\ cleanupPc[r][who] = "done" /\ Launched(r) =>
              "browser.close" \in invoked[r]
         /\ cleanupPc[r][who] = "page.close" => "page.close" \in invoked[r]
         /\ cleanupPc[r][who] = "browser.close" => "browser.close" \in invoked[r]

C20_Witness ==
  \E r \in Reqs :
    /\ cleanupPc[r]["error"] = "done"
    /\ cleanupPc[r]["disconnected"] = "done"
    /\ cleanupPc[r]["catch"] = "done"
    /\ browser[r] = "disconnected"
    /\ "browser.close" \in invoked[r]

----------------------------------------------------------------------------
(* Concurrent requests (SpecConc) *)

\* C14: with several requests in flight every request that launched a
\* browser holds a browser process of its own: no two requests hold the
\* same one, every process started is held by the request that started it,
\* and no process is ever used, closed or observed by code of two requests.
C14_SessionsExclusive ==
  /\ \A a \in Reqs, b \in Reqs : a # b /\ sid[a] # 0 => sid[a] # sid[b]
  /\ Cardinality({r \in Reqs : sid[r] # 0}) = sessions
  /\ \A i \in SessionIds :
       usedBy[i] = {r \in Reqs : sid[r] = i}

C14_Witness ==
  /\ \A r \in Reqs : InFlight(r) /\ browser[r] = "connected" /\ page[r] = "open"
  /\ sid["r1"] # sid["r2"]
  /\ endpoint["r1"] # endpoint["r2"]

\* C18: every request that passed validation is answered in the end.  In
\* finite form: a request that passed validation and is not answered yet
\* still has a step to take.
C18_EveryRequestAnswered ==
  \A r \in Reqs :
    nextCalled[r] /\ response[r] = <<>> => ENABLED RequestStep(r)

============================================================================
